---- MODULE Spec2Model ----
(***************************************************************************)
(* A model of backend/integrations/hubspot.py: the OAuth2 callback that    *)
(* exchanges a code for tokens, the credential accessor, and the fetch of  *)
(* contacts and companies into IntegrationItem objects.  Every coroutine   *)
(* is cut at its awaits on the network: the code between two awaits runs   *)
(* atomically on the event loop and is one action here.                    *)
(***************************************************************************)
EXTENDS Integers, Sequences, FiniteSets, TLC

VARIABLES TOKEN_STORAGE, pc, op, frame, result, sent

vars == <<TOKEN_STORAGE, pc, op, frame, result, sent>>

----------------------------------------------------------------------------
(* Bounds and the sample values the inputs are drawn from. *)

\* the longest `results` page a provider response carries
MaxResults == 2

\* Python's None, as a value no sample string equals
None == "<None>"

\* the callers: (user_id, org_id) pairs of the route layer
Callers ==
  { [user_id |-> "u1", org_id |-> "o1"], [user_id |-> "u2", org_id |-> "o2"] }

\* in SpecFetch the first tenant reads and fetches while the second exchanges
Fetcher == [user_id |-> "u1", org_id |-> "o1"]
Exchanger == [user_id |-> "u2", org_id |-> "o2"]

----------------------------------------------------------------------------
(* Python dictionaries are functions on their key set. *)

EmptyDict == <<>>

Bind(d, k, v) == [x \in DOMAIN d \cup {k} |-> IF x = k THEN v ELSE d[x]]

\* dict.get(k, default)
Get(d, k, default) == IF k \in DOMAIN d THEN d[k] ELSE default

\* dict.update: the keys of `new` win, the other keys of `old` stay
Merge(old, new) ==
  [x \in DOMAIN old \cup DOMAIN new |-> IF x \in DOMAIN new THEN new[x] ELSE old[x]]

\* the sequences over S of length at most n
RECURSIVE SeqsUpTo(_, _)
SeqsUpTo(S, n) ==
  IF n = 0 THEN {<<>>}
  ELSE LET shorter == SeqsUpTo(S, n - 1)
       IN shorter \cup {Append(s, x) : s \in shorter, x \in S}

----------------------------------------------------------------------------
(* Configuration and fixed URLs. *)

HTTP_OK == 200
HTTP_BAD_REQUEST == 400
HTTP_UNAUTHORIZED == 401
HTTP_NOT_FOUND == 404

HUBSPOT_CLIENT_ID == "client-id"
HUBSPOT_CLIENT_SECRET == "client-secret"
HUBSPOT_REDIRECT_URI == "http://localhost:8000/cb"

HUBSPOT_AUTH_URL == "https://app.hubspot.com/oauth/authorize"
HUBSPOT_TOKEN_URL == "https://api.hubapi.com/oauth/v1/token"
HUBSPOT_CONTACTS_URL == "https://api.hubapi.com/crm/v3/objects/contacts"
HUBSPOT_COMPANIES_URL == "https://api.hubapi.com/crm/v3/objects/companies"

SCOPE == "crm.objects.contacts.read crm.objects.companies.read"

----------------------------------------------------------------------------
(* What the provider and the route layer may send. *)

\* the inbound callback requests: no code, an empty code, a code
Requests ==
  { [query_params |-> EmptyDict],
    [query_params |-> [state |-> "s"]],
    [query_params |-> [code |-> ""]],
    [query_params |-> [code |-> "code1"]] }

TokenFields == {"access_token", "refresh_token"}
Tokens == {"tokA", "tokB"}

\* the JSON objects of a 200 token response: any subset of the fields
TokenBodies == UNION {[S -> Tokens] : S \in SUBSET TokenFields}

\* any other status, a 2xx one included, answers some other object
TokenResponses ==
  [status_code : {HTTP_OK}, json : TokenBodies]
    \cup [status_code : {201, HTTP_BAD_REQUEST, 500},
          json : {[message |-> "error"], [access_token |-> "tokA"]}]

\* provider results: an id and a properties object that may lack any field
ContactResults ==
  { [id |-> "1",
     properties |-> [firstname |-> "A", lastname |-> "B", email |-> "a@x.com"]],
    [id |-> "2", properties |-> EmptyDict] }

CompanyResults ==
  { [id |-> "7",
     properties |-> [name |-> "Acme", website |-> "acme.io", industry |-> "IT"]],
    [id |-> "8", properties |-> [industry |-> "IT"]] }

\* a 200 page has a `results` array or lacks it; an error body is any object
PageResponses(Results) ==
  [status_code : {HTTP_OK},
   json : {EmptyDict} \cup [results : SeqsUpTo(Results, MaxResults)]]
    \cup [status_code : {500, HTTP_NOT_FOUND},
          json : {[message |-> "error"]}]
    \cup [status_code : {500},
          json : [results : {<<x>> : x \in Results}]]

----------------------------------------------------------------------------
(* Outcomes of a call. *)

NoResult == [kind |-> "none"]

HTTPException(status_code, detail) ==
  [kind |-> "HTTPException", status_code |-> status_code, detail |-> detail]

KeyError(key) == [kind |-> "KeyError", key |-> key]

Return(value) == [kind |-> "return", value |-> value]

----------------------------------------------------------------------------
(* authorize_hubspot *)

\* urllib's quote_plus on the configured values: a space becomes "+", the
\* reserved characters ":" and "/" are percent-encoded, the rest is kept
quote_plus(s) ==
  CASE s = HUBSPOT_REDIRECT_URI -> "http%3A%2F%2Flocalhost%3A8000%2Fcb"
    [] s = SCOPE -> "crm.objects.contacts.read+crm.objects.companies.read"
    [] OTHER -> s

\* urlencode of a list of (key, value) pairs, in order, joined by "&"
RECURSIVE urlencode(_)
urlencode(params) ==
  IF params = <<>> THEN ""
  ELSE LET first == params[1][1] \o "=" \o quote_plus(params[1][2])
       IN IF Len(params) = 1 THEN first
          ELSE first \o "&" \o urlencode(Tail(params))

authorize_hubspot(user_id, org_id) ==
  LET params == << <<"client_id", HUBSPOT_CLIENT_ID>>,
                   <<"redirect_uri", HUBSPOT_REDIRECT_URI>>,
                   <<"scope", SCOPE>>,
                   <<"response_type", "code">> >>
  IN HUBSPOT_AUTH_URL \o "?" \o urlencode(params)

----------------------------------------------------------------------------
(* oauth2callback_hubspot *)

\* variant: `if code == ""`
CodeMissingOnlyEmpty(code) == code = ""
\* `if not code`: None and the empty string are both falsy
CodeMissing(code) == code = None \/ code = ""

TokenRequestData(code) ==
  [grant_type |-> "authorization_code",
   client_id |-> HUBSPOT_CLIENT_ID,
   client_secret |-> HUBSPOT_CLIENT_SECRET,
   redirect_uri |-> HUBSPOT_REDIRECT_URI,
   code |-> code]

Post(url, data) == [method |-> "POST", url |-> url, data |-> data]

HttpGet(url, headers) == [method |-> "GET", url |-> url, headers |-> headers]

TokenFailed(response) == response.status_code # HTTP_OK

\* variant: a fixed status instead of the provider's
TokenFailureFixedStatus(response) ==
  HTTPException(HTTP_BAD_REQUEST, "Failed to get access token")
TokenFailure(response) ==
  HTTPException(response.status_code, "Failed to get access token")

\* variant: TOKEN_STORAGE["hubspot"].update(tokens)
StoreTokensMerged(store, tokens) ==
  Bind(store, "hubspot", Merge(Get(store, "hubspot", EmptyDict), tokens))
\* TOKEN_STORAGE["hubspot"] = tokens
StoreTokens(store, tokens) == Bind(store, "hubspot", tokens)

----------------------------------------------------------------------------
(* get_hubspot_credentials *)

\* `not credentials`: .get gave None, or the stored object is empty
CredentialsFalsy(store) ==
  "hubspot" \notin DOMAIN store \/ DOMAIN store["hubspot"] = {}

get_hubspot_credentials(store, user_id, org_id) ==
  IF CredentialsFalsy(store)
  THEN HTTPException(HTTP_UNAUTHORIZED, "Missing HubSpot credentials")
  ELSE Return(store["hubspot"])

----------------------------------------------------------------------------
(* models.IntegrationItem and get_items_hubspot *)

\* the optional fields default to None
IntegrationItem(fields) ==
  Merge([email |-> None, phone |-> None, website |-> None, industry |-> None],
        fields)

\* variant: phone copied from the email property
contact_item_phone_from_email(contact) ==
  IntegrationItem(
    [id |-> Get(contact, "id", None),
     name |-> Get(contact.properties, "firstname", "") \o " "
                \o Get(contact.properties, "lastname", ""),
     type |-> "contact",
     email |-> Get(contact.properties, "email", None),
     phone |-> Get(contact.properties, "email", None)])
contact_item(contact) ==
  IntegrationItem(
    [id |-> Get(contact, "id", None),
     name |-> Get(contact.properties, "firstname", "") \o " "
                \o Get(contact.properties, "lastname", ""),
     type |-> "contact",
     email |-> Get(contact.properties, "email", None),
     phone |-> Get(contact.properties, "phone", None)])

company_item(company) ==
  IntegrationItem(
    [id |-> Get(company, "id", None),
     name |-> Get(company.properties, "name", ""),
     type |-> "company",
     website |-> Get(company.properties, "website", None),
     industry |-> Get(company.properties, "industry", None)])

\* variant: integration_items.insert(0, integration_item)
PrependItem(items, item) == <<item>> \o items
\* integration_items.append(integration_item)
AppendItem(items, item) == Append(items, item)

\* `for contact in contacts:` appending one item per entry, in order
RECURSIVE AppendContacts(_, _)
AppendContacts(items, contacts) ==
  IF contacts = <<>> THEN items
  ELSE AppendContacts(AppendItem(items, contact_item(Head(contacts))),
                      Tail(contacts))

RECURSIVE AppendCompanies(_, _)
AppendCompanies(items, companies) ==
  IF companies = <<>> THEN items
  ELSE AppendCompanies(AppendItem(items, company_item(Head(companies))),
                       Tail(companies))

BearerHeaders(credentials) ==
  [Authorization |-> "Bearer " \o credentials["access_token"]]

\* variant: the status is not looked at
PageOkAlways(response) == TRUE
\* `if contact_response.status_code == 200` and the same test for companies
PageOk(response) == response.status_code = HTTP_OK

\* response.json().get("results", [])
PageResults(response) == Get(response.json, "results", <<>>)

\* variant: the bearer is read from the store again for the second GET
CompaniesHeadersFromStore(fr) ==
  [Authorization |->
     "Bearer " \o Get(Get(TOKEN_STORAGE, "hubspot", EmptyDict), "access_token", None)]
\* the headers object built once is passed to both GETs
CompaniesHeaders(fr) == fr["headers"]

\* variant: a failed contacts GET is sent once more
RequestsAfterContactsWithRetry(fr) ==
  IF PageOk(fr["contact_response"])
  THEN <<HttpGet(HUBSPOT_COMPANIES_URL, CompaniesHeaders(fr))>>
  ELSE <<HttpGet(HUBSPOT_CONTACTS_URL, fr["headers"]),
         HttpGet(HUBSPOT_COMPANIES_URL, CompaniesHeaders(fr))>>
\* what is sent once the contacts response has been handled
RequestsAfterContacts(fr) ==
  <<HttpGet(HUBSPOT_COMPANIES_URL, CompaniesHeaders(fr))>>

\* `if not integration_items`
NoItems(items) == items = <<>>

----------------------------------------------------------------------------
(* State.  TOKEN_STORAGE is the module-level dict.  Each caller runs one   *)
(* call at a time: op names it, pc is its position, frame its local        *)
(* variables, result how it ended, sent the requests it has issued.        *)

Init ==
  /\ TOKEN_STORAGE = EmptyDict
  /\ pc = [c \in Callers |-> "idle"]
  /\ op = [c \in Callers |-> "none"]
  /\ frame = [c \in Callers |-> EmptyDict]
  /\ result = [c \in Callers |-> NoResult]
  /\ sent = [c \in Callers |-> <<>>]

\* a call that runs to its end in one step
Finished(c, name, fr, res) ==
  /\ pc' = [pc EXCEPT ![c] = "done"]
  /\ op' = [op EXCEPT ![c] = name]
  /\ frame' = [frame EXCEPT ![c] = fr]
  /\ result' = [result EXCEPT ![c] = res]

Args(c) == [user_id |-> c.user_id, org_id |-> c.org_id]

Authorize(c) ==
  /\ pc[c] = "idle"
  /\ Finished(c, "authorize_hubspot", Args(c),
              Return(authorize_hubspot(c.user_id, c.org_id)))
  /\ UNCHANGED <<TOKEN_STORAGE, sent>>

\* from the entry of oauth2callback_hubspot to the await of the POST
CallbackStart(c) ==
  /\ pc[c] = "idle"
  /\ \E request \in Requests :
       LET code == Get(request.query_params, "code", None)
           fr == [request |-> request, code |-> code]
       IN IF CodeMissing(code)
          THEN /\ Finished(c, "oauth2callback_hubspot", fr,
                           HTTPException(HTTP_BAD_REQUEST,
                                         "Authorization code missing"))
               /\ UNCHANGED sent
          ELSE LET data == TokenRequestData(code)
               IN /\ pc' = [pc EXCEPT ![c] = "await_token"]
                  /\ op' = [op EXCEPT ![c] = "oauth2callback_hubspot"]
                  /\ frame' = [frame EXCEPT ![c] = Bind(fr, "data", data)]
                  /\ sent' = [sent EXCEPT ![c] = <<Post(HUBSPOT_TOKEN_URL, data)>>]
                  /\ UNCHANGED result
  /\ UNCHANGED TOKEN_STORAGE

\* from the answer of the token endpoint to the return
CallbackResponse(c) ==
  /\ pc[c] = "await_token"
  /\ \E response \in TokenResponses :
       LET fr == Bind(frame[c], "response", response)
       IN IF TokenFailed(response)
          THEN /\ Finished(c, op[c], fr, TokenFailure(response))
               /\ UNCHANGED TOKEN_STORAGE
          ELSE LET tokens == response.json
               IN /\ TOKEN_STORAGE' = StoreTokens(TOKEN_STORAGE, tokens)
                  /\ Finished(c, op[c], Bind(fr, "tokens", tokens),
                              Return([message |->
                                        "HubSpot authentication successful"]))
  /\ UNCHANGED sent

\* get_hubspot_credentials called by the route layer
Credentials(c) ==
  /\ pc[c] = "idle"
  /\ Finished(c, "get_hubspot_credentials", Args(c),
              get_hubspot_credentials(TOKEN_STORAGE, c.user_id, c.org_id))
  /\ UNCHANGED <<TOKEN_STORAGE, sent>>

\* from the entry of get_items_hubspot to the await of the contacts GET
ItemsStart(c) ==
  /\ pc[c] = "idle"
  /\ LET got == get_hubspot_credentials(TOKEN_STORAGE, c.user_id, c.org_id)
     IN IF got.kind # "return"
        THEN Finished(c, "get_items_hubspot", Args(c), got) /\ UNCHANGED sent
        ELSE LET credentials == got.value
                 fr == Bind(Args(c), "credentials", credentials)
             IN IF DOMAIN credentials = {}
                THEN /\ Finished(c, "get_items_hubspot", fr,
                                 HTTPException(HTTP_UNAUTHORIZED,
                                               "HubSpot credentials not found"))
                     /\ UNCHANGED sent
                ELSE IF "access_token" \notin DOMAIN credentials
                THEN /\ Finished(c, "get_items_hubspot", fr,
                                 KeyError("access_token"))
                     /\ UNCHANGED sent
                ELSE LET headers == BearerHeaders(credentials)
                     IN /\ pc' = [pc EXCEPT ![c] = "await_contacts"]
                        /\ op' = [op EXCEPT ![c] = "get_items_hubspot"]
                        /\ frame' =
                             [frame EXCEPT ![c] =
                                Bind(Bind(fr, "headers", headers),
                                     "integration_items", <<>>)]
                        /\ sent' = [sent EXCEPT ![c] =
                                      <<HttpGet(HUBSPOT_CONTACTS_URL, headers)>>]
                        /\ UNCHANGED result
  /\ UNCHANGED TOKEN_STORAGE

\* from the contacts answer to the await of the companies GET
ContactsResponse(c) ==
  /\ pc[c] = "await_contacts"
  /\ \E contact_response \in PageResponses(ContactResults) :
       LET fr == Bind(frame[c], "contact_response", contact_response)
           items == IF PageOk(contact_response)
                    THEN AppendContacts(fr["integration_items"],
                                        PageResults(contact_response))
                    ELSE fr["integration_items"]
       IN /\ frame' = [frame EXCEPT ![c] = Bind(fr, "integration_items", items)]
          /\ sent' = [sent EXCEPT ![c] = sent[c] \o RequestsAfterContacts(fr)]
  /\ pc' = [pc EXCEPT ![c] = "await_companies"]
  /\ UNCHANGED <<TOKEN_STORAGE, op, result>>

\* from the companies answer to the return
CompaniesResponse(c) ==
  /\ pc[c] = "await_companies"
  /\ \E company_response \in PageResponses(CompanyResults) :
       LET fr == Bind(frame[c], "company_response", company_response)
           items == IF PageOk(company_response)
                    THEN AppendCompanies(fr["integration_items"],
                                         PageResults(company_response))
                    ELSE fr["integration_items"]
       IN Finished(c, op[c], Bind(fr, "integration_items", items),
                   IF NoItems(items)
                   THEN HTTPException(HTTP_NOT_FOUND, "No HubSpot items found")
                   ELSE Return(items))
  /\ UNCHANGED <<TOKEN_STORAGE, sent>>

\* the route layer has the outcome; the caller may call again
Finish(c) ==
  /\ pc[c] = "done"
  /\ pc' = [pc EXCEPT ![c] = "idle"]
  /\ op' = [op EXCEPT ![c] = "none"]
  /\ frame' = [frame EXCEPT ![c] = EmptyDict]
  /\ result' = [result EXCEPT ![c] = NoResult]
  /\ sent' = [sent EXCEPT ![c] = <<>>]
  /\ UNCHANGED TOKEN_STORAGE

\* token exchanges and credential reads by every caller
Next ==
  \E c \in Callers :
    \/ Authorize(c)
    \/ CallbackStart(c)
    \/ CallbackResponse(c)
    \/ Credentials(c)
    \/ Finish(c)

Spec == Init /\ [][Next]_vars

\* one caller reads and fetches while the other exchanges tokens
NextFetch ==
  \/ Authorize(Fetcher)
  \/ Credentials(Fetcher)
  \/ ItemsStart(Fetcher)
  \/ ContactsResponse(Fetcher)
  \/ CompaniesResponse(Fetcher)
  \/ Finish(Fetcher)
  \/ CallbackStart(Exchanger)
  \/ CallbackResponse(Exchanger)
  \/ Finish(Exchanger)

SpecFetch == Init /\ [][NextFetch]_vars

----------------------------------------------------------------------------
(* The steps and states the properties speak about. *)

\* c's token exchange receives its answer in this step
ExchangeAnswered(c) == pc[c] = "await_token" /\ pc'[c] = "done"

\* c's direct call of get_hubspot_credentials happens in this step
CredentialsRead(c) == pc[c] = "idle" /\ op'[c] = "get_hubspot_credentials"

\* c's callback, started in this step, carries no `code` query parameter
CallbackWithoutCode(c) ==
  /\ pc[c] = "idle"
  /\ op'[c] = "oauth2callback_hubspot"
  /\ "code" \notin DOMAIN frame'[c]["request"].query_params

\* c's get_items_hubspot call has handled both answers
FetchEnded(c) ==
  /\ op[c] = "get_items_hubspot"
  /\ pc[c] = "done"
  /\ "company_response" \in DOMAIN frame[c]

\* the entries a page contributes: its results on a 200, nothing otherwise
Contributed(response) ==
  IF response.status_code = 200 /\ "results" \in DOMAIN response.json
  THEN response.json.results
  ELSE <<>>

----------------------------------------------------------------------------
\* C1: a token exchange answered with a status other than 200 fails with an
\* HTTPException carrying exactly that status, and TOKEN_STORAGE is after the
\* step what it was before it.
C1_RefusedExchangeFailsAndKeepsStore ==
  [][\A c \in Callers :
       (ExchangeAnswered(c) /\ frame'[c]["response"].status_code # 200)
         => /\ result'[c].kind = "HTTPException"
            /\ result'[c].status_code = frame'[c]["response"].status_code
            /\ TOKEN_STORAGE' = TOKEN_STORAGE]_vars

\* a refused exchange (status 500) has failed while an earlier credential is
\* still in the store
C1_Witness ==
  \E c \in Callers :
    /\ op[c] = "oauth2callback_hubspot"
    /\ pc[c] = "done"
    /\ "response" \in DOMAIN frame[c]
    /\ frame[c]["response"].status_code = 500
    /\ result[c].kind = "HTTPException"
    /\ result[c].status_code = 500
    /\ "hubspot" \in DOMAIN TOKEN_STORAGE

\* C2: a callback whose request has no `code` query parameter ends at once
\* with HTTPException 400, never has a request to the token endpoint among
\* what it sent, and leaves TOKEN_STORAGE unchanged.
C2_NoCodeFailsBeforeAnyRequest ==
  /\ [](\A c \in Callers :
          (/\ op[c] = "oauth2callback_hubspot"
           /\ "code" \notin DOMAIN frame[c]["request"].query_params)
            => /\ pc[c] = "done"
               /\ result[c].kind = "HTTPException"
               /\ result[c].status_code = 400
               /\ sent[c] = <<>>)
  /\ [][\A c \in Callers :
          CallbackWithoutCode(c) => TOKEN_STORAGE' = TOKEN_STORAGE]_vars

\* a callback without `code` has failed with 400 while a credential is stored
C2_Witness ==
  \E c \in Callers :
    /\ op[c] = "oauth2callback_hubspot"
    /\ "code" \notin DOMAIN frame[c]["request"].query_params
    /\ result[c].kind = "HTTPException"
    /\ "hubspot" \in DOMAIN TOKEN_STORAGE

\* C3: after a token exchange answered with 200, TOKEN_STORAGE holds under
\* "hubspot" exactly the parsed body of that answer and nothing else: no
\* field of the credential stored before survives unless the body has it.
C3_SuccessfulExchangeOverwrites ==
  [][\A c \in Callers :
       (ExchangeAnswered(c) /\ frame'[c]["response"].status_code = 200)
         => /\ DOMAIN TOKEN_STORAGE' = {"hubspot"}
            /\ TOKEN_STORAGE'["hubspot"] = frame'[c]["response"].json
            /\ DOMAIN TOKEN_STORAGE'["hubspot"]
                 = DOMAIN frame'[c]["response"].json]_vars

\* two exchanges have succeeded; the store holds the second one's body, which
\* lacks the refresh_token the first one's body had
C3_Witness ==
  \E c, d \in Callers :
    /\ c # d
    /\ result[c].kind = "return" /\ "tokens" \in DOMAIN frame[c]
    /\ result[d].kind = "return" /\ "tokens" \in DOMAIN frame[d]
    /\ "refresh_token" \in DOMAIN frame[c]["tokens"]
    /\ "refresh_token" \notin DOMAIN frame[d]["tokens"]
    /\ "hubspot" \in DOMAIN TOKEN_STORAGE
    /\ TOKEN_STORAGE["hubspot"] = frame[d]["tokens"]

\* C4: get_hubspot_credentials fails with HTTPException 401 when
\* TOKEN_STORAGE has no "hubspot" entry, and returns the stored object
\* unchanged whenever the entry is present, whatever object that is.
C4_AccessorReturnsWhateverIsStored ==
  [][\A c \in Callers :
       CredentialsRead(c)
         => IF "hubspot" \notin DOMAIN TOKEN_STORAGE
            THEN /\ result'[c].kind = "HTTPException"
                 /\ result'[c].status_code = 401
            ELSE result'[c] = Return(TOKEN_STORAGE["hubspot"])]_vars

\* C8: under every interleaving the store holds at most one credential, the
\* whole body of the 200 answer handled last, and get_hubspot_credentials
\* returns that credential to every caller whatever user_id and org_id.
C8_LastWriterWinsForEveryCaller ==
  [][/\ Cardinality(DOMAIN TOKEN_STORAGE') <= 1
     /\ \A c \in Callers :
          (ExchangeAnswered(c) /\ frame'[c]["response"].status_code = 200)
            => TOKEN_STORAGE' = [hubspot |-> frame'[c]["response"].json]
     /\ (\A c \in Callers :
           ~(ExchangeAnswered(c) /\ frame'[c]["response"].status_code = 200))
          => TOKEN_STORAGE' = TOKEN_STORAGE
     /\ \A c \in Callers :
          (CredentialsRead(c) /\ "hubspot" \in DOMAIN TOKEN_STORAGE)
            => result'[c] = Return(TOKEN_STORAGE["hubspot"])]_vars

----------------------------------------------------------------------------
(* The fetch: what the claims compare the returned list with. *)

\* the provider entries behind the returned list: contacts, then companies
ContributedContacts(c) == Contributed(frame[c]["contact_response"])
ContributedCompanies(c) == Contributed(frame[c]["company_response"])
ContributedEntries(c) == ContributedContacts(c) \o ContributedCompanies(c)

\* c's get_items_hubspot call has returned a list
FetchReturned(c) == FetchEnded(c) /\ result[c].kind = "return"

\* a field group counts as populated when one of its fields is set
ContactGroupSet(item) == item.email # None \/ item.phone # None
CompanyGroupSet(item) == item.website # None \/ item.industry # None

\* C5: once both answers are handled, get_items_hubspot fails with
\* HTTPException 404 exactly when no 200 answer contributed an entry; it
\* never fails with anything else (a provider's 500 is not passed on), and
\* a non-200 answer contributes no item, so the call returns the items of
\* the other resource whenever that one has some.
C5_NotFoundIffNothingFetched ==
  FetchEnded(Fetcher)
    => IF ContributedEntries(Fetcher) = <<>>
       THEN /\ result[Fetcher].kind = "HTTPException"
            /\ result[Fetcher].status_code = 404
       ELSE /\ result[Fetcher].kind = "return"
            /\ Len(result[Fetcher].value) = Len(ContributedEntries(Fetcher))

\* contacts answered 500 with a body that has results, companies answered
\* 200 with entries: the call returned
C5_Witness ==
  /\ FetchReturned(Fetcher)
  /\ frame[Fetcher]["contact_response"].status_code = 500
  /\ "results" \in DOMAIN frame[Fetcher]["contact_response"].json
  /\ Len(result[Fetcher].value) = 2

\* C6: the returned list is, entry for entry, the contacts page followed by
\* the companies page: as many items as entries, the i-th item made from the
\* i-th entry (its id), typed contact for the first group and company for
\* the second.
C6_ContactsThenCompaniesInProviderOrder ==
  FetchReturned(Fetcher)
    => LET items == result[Fetcher].value
           entries == ContributedEntries(Fetcher)
           nContacts == Len(ContributedContacts(Fetcher))
       IN /\ Len(items) = Len(entries)
          /\ \A i \in 1..Len(items) :
               /\ items[i].id = entries[i].id
               /\ items[i].type = IF i <= nContacts THEN "contact" ELSE "company"

\* two different contacts and a company came back, in that order
C6_Witness ==
  /\ FetchReturned(Fetcher)
  /\ Len(ContributedContacts(Fetcher)) = 2
  /\ ContributedContacts(Fetcher)[1].id # ContributedContacts(Fetcher)[2].id
  /\ Len(ContributedCompanies(Fetcher)) >= 1

\* C7 as stated: every returned item has type contact or company, the field
\* group of the other type unset, and the field group of its own type
\* populated.
C7_ExactlyOneGroupPopulated ==
  FetchReturned(Fetcher)
    => \A i \in 1..Len(result[Fetcher].value) :
         LET item == result[Fetcher].value[i]
         IN /\ item.type \in {"contact", "company"}
            /\ item.type = "contact"
                 => ContactGroupSet(item) /\ ~CompanyGroupSet(item)
            /\ item.type = "company"
                 => CompanyGroupSet(item) /\ ~ContactGroupSet(item)

\* C7 amended: every returned item has type contact or company and the field
\* group of the other type unset; each field of its own group is the value
\* of that field in the entry's properties, and None when they lack it.
C7_OtherGroupUnsetOwnGroupCopied ==
  FetchReturned(Fetcher)
    => \A i \in 1..Len(result[Fetcher].value) :
         LET item == result[Fetcher].value[i]
             properties == ContributedEntries(Fetcher)[i].properties
         IN /\ item.type \in {"contact", "company"}
            /\ item.type = "contact"
                 => /\ ~CompanyGroupSet(item)
                    /\ item.email = Get(properties, "email", None)
                    /\ item.phone = Get(properties, "phone", None)
            /\ item.type = "company"
                 => /\ ~ContactGroupSet(item)
                    /\ item.website = Get(properties, "website", None)
                    /\ item.industry = Get(properties, "industry", None)

\* a returned contact made from empty properties has neither group set,
\* beside a contact with an email and a company with an industry alone
C7_Witness ==
  /\ FetchReturned(Fetcher)
  /\ \E i \in 1..Len(result[Fetcher].value) :
       LET item == result[Fetcher].value[i]
       IN item.type = "contact" /\ ~ContactGroupSet(item)
  /\ \E i \in 1..Len(result[Fetcher].value) :
       LET item == result[Fetcher].value[i]
       IN item.type = "contact" /\ item.email # None /\ item.phone = None
  /\ \E i \in 1..Len(result[Fetcher].value) :
       LET item == result[Fetcher].value[i]
       IN item.type = "company" /\ item.website = None /\ item.industry # None

\* C9: a get_items_hubspot call sends at most two GETs, contacts then
\* companies, each once; while the contacts answer is awaited only the
\* contacts GET is out, and once it is handled, whatever its status, the
\* companies GET is out.
C9_TwoSequentialGets ==
  op[Fetcher] = "get_items_hubspot"
    => LET s == sent[Fetcher]
           answered == "contact_response" \in DOMAIN frame[Fetcher]
       IN /\ Len(s) <= 2
          /\ \A i \in 1..Len(s) : s[i].method = "GET"
          /\ Len(s) >= 1 => s[1].url = HUBSPOT_CONTACTS_URL
          /\ Len(s) = 2 => s[2].url = HUBSPOT_COMPANIES_URL
          /\ pc[Fetcher] = "await_contacts" => Len(s) = 1 /\ ~answered
          /\ pc[Fetcher] = "await_companies" => Len(s) = 2 /\ answered
          /\ answered <=> Len(s) = 2

\* the contacts GET was answered 500 and the companies GET is out
C9_Witness ==
  /\ op[Fetcher] = "get_items_hubspot"
  /\ pc[Fetcher] = "await_companies"
  /\ frame[Fetcher]["contact_response"].status_code = 500
  /\ Len(sent[Fetcher]) = 2

\* C10: TOKEN_STORAGE changes only in the step in which a token exchange
\* handles a 200 answer, and every GET of a get_items_hubspot call carries
\* as bearer the access_token the call read from the store when it began.
C10_StoreFrameAndStableBearer ==
  /\ [](op[Fetcher] = "get_items_hubspot"
          => \A i \in 1..Len(sent[Fetcher]) :
               sent[Fetcher][i].headers
                 = [Authorization |->
                      "Bearer " \o frame[Fetcher]["credentials"]["access_token"]])
  /\ [][TOKEN_STORAGE' # TOKEN_STORAGE
          => \E c \in Callers :
               /\ ExchangeAnswered(c)
               /\ frame'[c]["response"].status_code = 200]_vars

\* both GETs are out while the store holds another access_token than the
\* one the call began with
C10_Witness ==
  /\ op[Fetcher] = "get_items_hubspot"
  /\ Len(sent[Fetcher]) = 2
  /\ "hubspot" \in DOMAIN TOKEN_STORAGE
  /\ "access_token" \in DOMAIN TOKEN_STORAGE["hubspot"]
  /\ TOKEN_STORAGE["hubspot"]["access_token"]
       # frame[Fetcher]["credentials"]["access_token"]

====
